---- MODULE Spec2Model ----
(***************************************************************************)
(* The node and connection tools of the n8n MCP server                     *)
(* (executeToolWithErrorHandling in working-dxt-extract/README.md):        *)
(* add_node, update_node, remove_node and update_node_connections.  Each   *)
(* tool call fetches the workflow from the n8n engine (GET), edits the     *)
(* copy in memory and sends it back (PUT).  The engine-held workflow is    *)
(* the state, with the call in progress: a request arrives, the handler    *)
(* runs as one step, and the result goes back to the caller.               *)
(***************************************************************************)
EXTENDS Integers, Sequences, FiniteSets, TLC

\* ------------------------------------------------------------------ values

\* A JavaScript value that may be undefined/null: {} is absent, {v} is v.
None == {}
Some(v) == {v}
Get(o) == CHOOSE v \in o : TRUE

\* The JavaScript object {} (a mapping with no keys).
EmptyObject == [k \in {} |-> k]

\* Most nodes a workflow holds in the model.
MaxNodes == 2

\* Most nodes a workflow holds where the layout of added nodes is followed,
\* and the rightmost column (of 300) an added node may go beyond.
MaxLayoutNodes == 3
MaxColumn == 3

\* Node names callers use, and the strings generateNodeId can return.  One
\* string is in both sets: an id may be spelled like another node's name.
NodeNames == {"A", "B", "Start"}
NodeIds == {"id1", "id2", "B"}

\* Connection types of the engine's documents; the handlers read only .main.
ConnTypes == {"main", "ai_tool"}

TriggerType == "n8n-nodes-base.manualTrigger"
HttpType == "n8n-nodes-base.httpRequest"
UrlParams == [url |-> "http://example"]

Target(n, t) == [node |-> n, type |-> t, index |-> 0]

\* Object.keys(o).forEach with a callback that changes or checks one entry at
\* a time: the keys of an object as a set.
Keys(o) == DOMAIN o

\* ------------------------------------------------------------ the workflow

Node(id, name, type, position, parameters) ==
    [id |-> id, name |-> name, type |-> type, typeVersion |-> 1,
     position |-> position, parameters |-> parameters]

\* The fields the handlers delete before the PUT.
ReadOnlyFields == {"id", "active", "createdAt", "updatedAt", "tags"}

\* The workflow the engine holds at start: trigger A wired to HTTP node B.
InitialWorkflow ==
    [id |-> "wf1", name |-> "My workflow", active |-> FALSE,
     createdAt |-> "t0", updatedAt |-> "t0", tags |-> <<>>,
     settings |-> EmptyObject,
     nodes |-> << Node("id1", "A", TriggerType, <<0, 0>>, EmptyObject),
                  Node("id2", "B", HttpType, <<300, 100>>, UrlParams) >>,
     connections |-> [n \in {"A"} |->
                        [t \in {"main"} |-> << Some(<< Target("B", "main") >>) >>]]]

\* ---------------------------------------------------------------- results

\* throw new Error(...): the message, reduced to its template and the name
\* or id it quotes.
Error(message, ref) == [message |-> message, ref |-> ref]

\* What a handler computes between the GET and the PUT: either an error
\* thrown before the PUT, or the body it sends.
Throw(err) == [throws |-> Some(err), body |-> None]
Send(body) == [throws |-> None, body |-> Some(body)]

\* delete wf.id; delete wf.active; ... : the object without those fields.
StripReadOnly(wf) == [f \in (DOMAIN wf) \ ReadOnlyFields |-> wf[f]]

\* ------------------------------------------------------------- resolution

\* A slip: the -1 of a reference that matches nothing is used as an index,
\* which in nodes.splice(-1, 1) is the last node.
findIndex_Last(nodes, ref) ==
    LET hits == {i \in 1..Len(nodes) : nodes[i].id = ref \/ nodes[i].name = ref}
    IN IF hits = {} THEN Len(nodes) ELSE CHOOSE i \in hits : \A j \in hits : i <= j

\* nodes.findIndex(node => node.id === ref || node.name === ref), 1-based;
\* 0 stands for JavaScript's -1.
findIndex(nodes, ref) ==
    LET hits == {i \in 1..Len(nodes) : nodes[i].id = ref \/ nodes[i].name = ref}
    IN IF hits = {} THEN 0 ELSE CHOOSE i \in hits : \A j \in hits : i <= j

\* A slip: the check compares the id, not the name.
nameExists_ById(nodes, name) == \E i \in 1..Len(nodes) : nodes[i].id = name

\* nodes.some(node => node.name === name)
nameExists(nodes, name) == \E i \in 1..Len(nodes) : nodes[i].name = name

\* ---------------------------------------------------------------- add_node

\* A slip: the first generated id is taken, whether or not a node has it.
FreshId_NoRetry(nodes, id) == TRUE

\* The while loop around generateNodeId ends with an id no node has; id is
\* the string it ends with.
FreshId(nodes, id) == ~ \E i \in 1..Len(nodes) : nodes[i].id = id

MaxOf(S) == CHOOSE m \in S : \A x \in S : x <= m

\* A slip: the reduce starts from the first node's x, and 0 is only the value
\* for a workflow without nodes.
maxX_NoFloor(nodes) ==
    IF nodes = <<>> THEN 0 ELSE MaxOf({nodes[i].position[1] : i \in 1..Len(nodes)})

\* nodes.reduce((max, node) => Math.max(max, node.position[0]), 0)
maxX(nodes) == MaxOf({0} \cup {nodes[i].position[1] : i \in 1..Len(nodes)})

newNode(nodes, args, newNodeId) ==
    Node(newNodeId, args.name, args.nodeType,
         IF args.position = None THEN <<maxX(nodes) + 300, 100>> ELSE Get(args.position),
         IF args.parameters = None THEN EmptyObject ELSE Get(args.parameters))

\* A slip: nodes.unshift(newNode) for nodes.push(newNode).
add_node_Unshift(wf, args, newNodeId) ==
    IF nameExists(wf.nodes, args.name)
    THEN Throw(Error("Node with name already exists in workflow", args.name))
    ELSE Send(StripReadOnly(
            [wf EXCEPT !.nodes = <<newNode(@, args, newNodeId)>> \o @]))

add_node(wf, args, newNodeId) ==
    IF nameExists(wf.nodes, args.name)
    THEN Throw(Error("Node with name already exists in workflow", args.name))
    ELSE Send(StripReadOnly([wf EXCEPT !.nodes = Append(@, newNode(@, args, newNodeId))]))

\* -------------------------------------------------------------- update_node

\* A slip: updatedNode.parameters = args.parameters, a replacement.
MergeParameters_Replace(old, new) == new

\* { ...originalNode.parameters, ...args.parameters }
MergeParameters(old, new) ==
    [k \in (DOMAIN old) \cup (DOMAIN new) |-> IF k \in DOMAIN new THEN new[k] ELSE old[k]]

\* mainConns.forEach(conn => { if (conn.node === oldName) conn.node = newName })
renameTargets(mainConns, oldName, newName) ==
    [i \in 1..Len(mainConns) |->
        IF mainConns[i].node = oldName
        THEN [mainConns[i] EXCEPT !.node = newName]
        ELSE mainConns[i]]

\* if (connections[sourceName].main) main.forEach(mainConns => if (mainConns) ...)
renameIncoming(outputs, oldName, newName) ==
    IF "main" \in DOMAIN outputs
    THEN [outputs EXCEPT !.main =
            [i \in 1..Len(@) |->
                IF @[i] = None THEN None
                ELSE Some(renameTargets(Get(@[i]), oldName, newName))]]
    ELSE outputs

\* connections[newName] = connections[oldName]; delete connections[oldName]
moveOutgoing(connections, oldName, newName) ==
    IF oldName \in DOMAIN connections
    THEN [k \in ((DOMAIN connections) \ {oldName}) \cup {newName} |->
            IF k = newName THEN connections[oldName] ELSE connections[k]]
    ELSE connections

renameInConnections(connections, oldName, newName) ==
    LET moved == moveOutgoing(connections, oldName, newName)
    IN [sourceName \in Keys(moved) |-> renameIncoming(moved[sourceName], oldName, newName)]

updatedNode(originalNode, args) ==
    LET withParameters ==
            IF args.parameters # None
            THEN [originalNode EXCEPT
                    !.parameters = MergeParameters(@, Get(args.parameters))]
            ELSE originalNode
        withName ==
            IF args.name # None
            THEN [withParameters EXCEPT !.name = Get(args.name)]
            ELSE withParameters
    IN IF args.position # None
       THEN [withName EXCEPT !.position = Get(args.position)]
       ELSE withName

update_node(wf, args) ==
    LET nodeIndex == findIndex(wf.nodes, args.nodeId)
    IN IF nodeIndex = 0
       THEN Throw(Error("Node with ID or name not found in workflow", args.nodeId))
       ELSE LET originalNode == wf.nodes[nodeIndex]
                connections ==
                    IF args.name # None /\ Get(args.name) # originalNode.name
                    THEN renameInConnections(wf.connections, originalNode.name,
                                             Get(args.name))
                    ELSE wf.connections
            IN Send(StripReadOnly(
                    [wf EXCEPT !.connections = connections,
                               !.nodes[nodeIndex] = updatedNode(originalNode, args)]))

\* -------------------------------------------------------------- remove_node

\* nodes.splice(index, 1)
splice(nodes, index) == SubSeq(nodes, 1, index - 1) \o SubSeq(nodes, index + 1, Len(nodes))

\* A slip: the filter keeps nothing of a slot.
filterTargets_None(mainConns, nodeName) == <<>>

\* mainConns.filter(conn => conn.node !== nodeName)
filterTargets(mainConns, nodeName) == SelectSeq(mainConns, LAMBDA conn : conn.node # nodeName)

\* A slip: the incoming Targets are left in place.
dropIncoming_Keep(outputs, nodeName) == outputs

\* main = main.map(mainConns => mainConns ? mainConns.filter(...) : mainConns)
dropIncoming(outputs, nodeName) ==
    IF "main" \in DOMAIN outputs
    THEN [outputs EXCEPT !.main =
            [i \in 1..Len(@) |->
                IF @[i] = None THEN None ELSE Some(filterTargets(Get(@[i]), nodeName))]]
    ELSE outputs

cleanUpConnections(connections, nodeName) ==
    LET kept == [k \in (DOMAIN connections) \ {nodeName} |-> connections[k]]
    IN [sourceName \in Keys(kept) |-> dropIncoming(kept[sourceName], nodeName)]

remove_node(wf, args) ==
    LET nodeToRemoveIndex == findIndex(wf.nodes, args.nodeId)
    IN IF nodeToRemoveIndex = 0
       THEN Throw(Error("Node with ID or name not found in workflow", args.nodeId))
       ELSE LET nodeName == wf.nodes[nodeToRemoveIndex].name
            IN Send(StripReadOnly(
                    [wf EXCEPT !.nodes = splice(@, nodeToRemoveIndex),
                               !.connections = cleanUpConnections(@, nodeName)]))

\* -------------------------------------------------- update_node_connections

\* The caller's connections object: its keys in the order Object.keys lists
\* them, and the outputs under each key.
ConnectionsObject(order, map) == [order |-> order, map |-> map]

MinOf(S) == CHOOSE m \in S : \A x \in S : m <= x

RECURSIVE Flatten(_)
Flatten(slots) ==
    IF slots = <<>> THEN <<>>
    ELSE (IF Head(slots) = None THEN <<>> ELSE Get(Head(slots))) \o Flatten(Tail(slots))

\* The body of validateConnections' forEach for one source: the first error
\* it throws, if any.
validateSource(outputs, sourceName, nodeNames) ==
    IF sourceName \notin nodeNames
    THEN Some(Error("Source node does not exist in workflow", sourceName))
    ELSE LET conns == IF "main" \in DOMAIN outputs THEN Flatten(outputs.main) ELSE <<>>
             bad == {i \in 1..Len(conns) : conns[i].node \notin nodeNames}
         IN IF bad = {} THEN None
            ELSE Some(Error("Target node does not exist in workflow",
                            conns[MinOf(bad)].node))

validateConnections(connections, nodeNames) ==
    LET thrown == [i \in 1..Len(connections.order) |->
                     validateSource(connections.map[connections.order[i]],
                                    connections.order[i], nodeNames)]
        bad == {i \in 1..Len(thrown) : thrown[i] # None}
    IN IF bad = {} THEN None ELSE thrown[MinOf(bad)]

\* A slip: Object.assign(wf.connections, args.connections), a merge, for the
\* assignment.
update_node_connections_Merge(wf, args) ==
    LET nodeNames == {wf.nodes[i].name : i \in 1..Len(wf.nodes)}
        thrown == validateConnections(Get(args.connections), nodeNames)
        new == Get(args.connections).map
    IN IF thrown # None
       THEN Throw(Get(thrown))
       ELSE Send(StripReadOnly(
               [wf EXCEPT !.connections =
                   [k \in (DOMAIN @) \cup (DOMAIN new) |->
                       IF k \in DOMAIN new THEN new[k] ELSE @[k]]]))

update_node_connections(wf, args) ==
    LET nodeNames == {wf.nodes[i].name : i \in 1..Len(wf.nodes)}
        thrown == validateConnections(Get(args.connections), nodeNames)
    IN IF thrown # None
       THEN Throw(Get(thrown))
       ELSE Send(StripReadOnly([wf EXCEPT !.connections = Get(args.connections).map]))

\* ------------------------------------------------------------ the tool call

VARIABLES
    engine,   \* the workflow the n8n engine holds
    call,     \* the tool call in progress or just answered, Idle between calls
    server    \* the server process: its configuration, main() and the shutdown

vars == <<engine, call, server>>

\* DXT_CONFIG.max_retries
max_retries == 3

\* Signals and errors the process has handlers for.
ShutdownSignals == {"SIGINT", "SIGTERM", "SIGQUIT", "UNCAUGHT_EXCEPTION"}

\* The process when main() begins: the configuration is loaded (an absent
\* API key reads 'not-configured'), nothing else has happened.  main is the
\* position of main(), trail what main() has done so far, events the number
\* of signals and uncaught exceptions received.
Booting(n8nApiKey) ==
    [n8nApiKey |-> n8nApiKey, main |-> "start", attempt |-> 0, trail |-> <<>>,
     connectivityTestPassed |-> FALSE, serverInstance |-> FALSE,
     isShuttingDown |-> FALSE, signal |-> None, events |-> 0, ignored |-> 0,
     closeCalls |-> 0, close |-> "none", shutdownPromise |-> "none",
     exitCode |-> None]

\* The process once main() has connected the transport: without an API key
\* straight away, with one after a connectivity test that passed.
Started(n8nApiKey) ==
    IF n8nApiKey = "not-configured"
    THEN [Booting(n8nApiKey) EXCEPT !.main = "started", !.serverInstance = TRUE,
                                    !.trail = <<"configure", "connect">>]
    ELSE [Booting(n8nApiKey) EXCEPT !.main = "started", !.serverInstance = TRUE,
                                    !.attempt = 1, !.connectivityTestPassed = TRUE,
                                    !.trail = <<"passed", "configure", "connect">>]

\* A slip: every server counts as configured.
isConfigured_Always == TRUE

\* config.n8nApiKey !== 'not-configured'
isConfigured == server.n8nApiKey # "not-configured"

\* !['health_check'].includes(toolName)
requiresApiKey(toolName) == toolName # "health_check"

\* executeToolWithErrorHandling reaches the case of the tool: the process
\* runs, and the tool is health_check or the API key is configured.
Executing(toolName) ==
    /\ call.phase = "received" /\ call.tool = toolName
    /\ server.exitCode = None
    /\ requiresApiKey(toolName) => isConfigured

\* Status codes the engine answers with (validateStatus lets 4xx through).
GetStatuses == {200, 404}
PutStatuses == {200, 400}

\* PUT /workflows/:id answered 200: the engine keeps its own fields and takes
\* the rest from the body.
EnginePut(held, body) ==
    [f \in DOMAIN held |-> IF f \in DOMAIN body THEN body[f] ELSE held[f]]

Idle == [phase |-> "idle"]

\* request.params of a CallToolRequest.
Received(tool, args) == [phase |-> "received", tool |-> tool, args |-> args]

\* The result executeToolWithErrorHandling returns, with what the call did on
\* the way: the workflow the engine held when it started, the requests it sent
\* (gets, puts) and the body of its PUT.
Returned(tool, args, before, error, gets, sent) ==
    [phase |-> "returned", tool |-> tool, args |-> args, before |-> before,
     isError |-> error # None, error |-> error,
     gets |-> gets, puts |-> Cardinality(sent), sent |-> sent]

\* A slip: the workflow is sent back before the handler's checks, so a call
\* whose check throws has already issued its PUT.
ToolCall_PutFirst(tool, args, required, outcome, getStatus, putStatus) ==
    IF ~required
    THEN /\ call' = Returned(tool, args, engine,
                             Some(Error("workflowId is required", "")), 0, None)
         /\ UNCHANGED <<engine, server>>
    ELSE IF getStatus # 200
    THEN /\ call' = Returned(tool, args, engine,
                             Some(Error("Failed to fetch workflow", "")), 1, None)
         /\ UNCHANGED <<engine, server>>
    ELSE IF outcome.throws # None
    THEN /\ call' = Returned(tool, args, engine, outcome.throws, 1,
                             Some(StripReadOnly(engine)))
         /\ UNCHANGED <<engine, server>>
    ELSE IF putStatus # 200
    THEN /\ call' = Returned(tool, args, engine,
                             Some(Error("Failed to update workflow", "")), 1, outcome.body)
         /\ UNCHANGED <<engine, server>>
    ELSE /\ call' = Returned(tool, args, engine, None, 1, outcome.body)
         /\ engine' = EnginePut(engine, Get(outcome.body))
         /\ UNCHANGED server

\* One pass through executeToolWithErrorHandling for a node tool: the check of
\* the required arguments, the GET, the handler's edit, the PUT, and the catch
\* that turns a thrown error into an isError result.
ToolCall(tool, args, required, outcome, getStatus, putStatus) ==
    IF ~required
    THEN /\ call' = Returned(tool, args, engine,
                             Some(Error("workflowId is required", "")), 0, None)
         /\ UNCHANGED <<engine, server>>
    ELSE IF getStatus # 200
    THEN /\ call' = Returned(tool, args, engine,
                             Some(Error("Failed to fetch workflow", "")), 1, None)
         /\ UNCHANGED <<engine, server>>
    ELSE IF outcome.throws # None
    THEN /\ call' = Returned(tool, args, engine, outcome.throws, 1, None)
         /\ UNCHANGED <<engine, server>>
    ELSE IF putStatus # 200
    THEN /\ call' = Returned(tool, args, engine,
                             Some(Error("Failed to update workflow", "")), 1, outcome.body)
         /\ UNCHANGED <<engine, server>>
    ELSE /\ call' = Returned(tool, args, engine, None, 1, outcome.body)
         /\ engine' = EnginePut(engine, Get(outcome.body))
         /\ UNCHANGED server

\* ------------------------------------------------------------------ inputs

\* What callers pass as nodeId: a name, an id, or nothing.
NodeRefs == NodeNames \cup NodeIds \cup {""}

MainTo(n) == [t \in {"main"} |-> << Some(<< Target(n, "main") >>) >>]
AiToolTo(n) == [t \in {"ai_tool"} |-> << Some(<< Target(n, "ai_tool") >>) >>]
\* main: [null, [n]]: the first output unconnected.
SecondTo(n) == [t \in {"main"} |-> << None, Some(<< Target(n, "main") >>) >>]

\* Connection objects callers supply: no key; one key with one connected slot
\* of either type; two keys wired to each other, in either order, the first
\* by its second output.
ConnectionObjects ==
    {ConnectionsObject(<<>>, EmptyObject)}
    \cup {ConnectionsObject(<<s>>, [k \in {s} |-> o])
            : s \in NodeNames, o \in {MainTo(n) : n \in NodeNames}
                                     \cup {AiToolTo(n) : n \in NodeNames}}
    \cup {ConnectionsObject(p, [k \in {p[1], p[2]} |->
                                  IF k = p[1] THEN SecondTo(p[2]) ELSE MainTo(p[1])])
            : p \in {q \in NodeNames \X NodeNames : q[1] # q[2]}}

\* The calls of Spec, which is about the graph: HTTP nodes under every name,
\* renames by every reference, every connection object.
AddArgs ==
    {[name |-> n, nodeType |-> HttpType, parameters |-> Some(UrlParams),
      position |-> Some(<<300, 100>>)] : n \in NodeNames}

UpdateArgs ==
    [nodeId : NodeRefs, name : {None} \cup {Some(n) : n \in NodeNames},
     parameters : {None}, position : {None}]

RemoveArgs == [nodeId : NodeRefs]

ConnArgs == [connections : {None} \cup {Some(c) : c \in ConnectionObjects}]

\* The calls of SpecNodes, which is about the nodes: both kinds of node, with
\* and without parameters; renames and removals by name; two connection
\* objects.
NodeAddArgs ==
    {[name |-> n, nodeType |-> TriggerType, parameters |-> None, position |-> Some(<<0, 0>>)]
        : n \in NodeNames}
    \cup
    {[name |-> n, nodeType |-> HttpType, parameters |-> Some(UrlParams),
      position |-> Some(<<300, 100>>)] : n \in NodeNames}

NodeUpdateArgs ==
    [nodeId : NodeNames, name : {Some(n) : n \in NodeNames},
     parameters : {None}, position : {None}]

NodeRemoveArgs == [nodeId : NodeNames]

NodeConnArgs ==
    [connections : {Some(ConnectionsObject(<<>>, EmptyObject)),
                    Some(ConnectionsObject(<<"A">>, [k \in {"A"} |-> MainTo("B")]))}]

\* ----------------------------------------------------------------- actions

Init ==
    /\ engine = InitialWorkflow
    /\ call = Idle
    /\ server = Started("key")

\* server.setRequestHandler(CallToolRequestSchema, ...): a request arrives.
Receive(adds, updates, removes, conns) ==
    /\ call = Idle
    /\ \/ \E args \in adds :
            /\ Len(engine.nodes) < MaxNodes
            /\ call' = Received("add_node", args)
       \/ \E args \in updates : call' = Received("update_node", args)
       \/ \E args \in removes : call' = Received("remove_node", args)
       \/ \E args \in conns : call' = Received("update_node_connections", args)
    /\ UNCHANGED <<engine, server>>

AddNode ==
    /\ Executing("add_node")
    /\ \E newNodeId \in NodeIds, getStatus \in GetStatuses, putStatus \in PutStatuses :
        /\ FreshId(engine.nodes, newNodeId)
        /\ ToolCall("add_node", call.args, TRUE,
                    add_node(engine, call.args, newNodeId), getStatus, putStatus)

UpdateNode ==
    /\ Executing("update_node")
    /\ \E getStatus \in GetStatuses, putStatus \in PutStatuses :
        ToolCall("update_node", call.args, call.args.nodeId # "",
                 update_node(engine, call.args), getStatus, putStatus)

RemoveNode ==
    /\ Executing("remove_node")
    /\ \E getStatus \in GetStatuses, putStatus \in PutStatuses :
        ToolCall("remove_node", call.args, call.args.nodeId # "",
                 remove_node(engine, call.args), getStatus, putStatus)

UpdateNodeConnections ==
    /\ Executing("update_node_connections")
    /\ \E getStatus \in GetStatuses, putStatus \in PutStatuses :
        ToolCall("update_node_connections", call.args, call.args.connections # None,
                 update_node_connections(engine, call.args), getStatus, putStatus)

\* The result goes back to the caller.
Respond ==
    /\ call.phase = "returned"
    /\ call' = Idle
    /\ UNCHANGED <<engine, server>>

Next ==
    \/ Receive(AddArgs, UpdateArgs, RemoveArgs, ConnArgs)
    \/ AddNode
    \/ UpdateNode
    \/ RemoveNode
    \/ UpdateNodeConnections
    \/ Respond

Spec == Init /\ [][Next]_vars

NodesNext ==
    \/ Receive(NodeAddArgs, NodeUpdateArgs, NodeRemoveArgs, NodeConnArgs)
    \/ AddNode
    \/ UpdateNode
    \/ RemoveNode
    \/ UpdateNodeConnections
    \/ Respond

SpecNodes == Init /\ [][NodesNext]_vars

\* ---------------------------------------------------------------- get_node

\* The incoming list get_node reports: for each Target under .main that names
\* the node, its source, output slot (0-based) and input index.
incoming(connections, name) ==
    {[sourceNode |-> sourceName, outputIndex |-> outputIndex - 1,
      inputIndex |-> Get(connections[sourceName].main[outputIndex])[j].index]
        : <<sourceName, outputIndex, j>> \in
            {t \in (DOMAIN connections) \X (1..2) \X (1..1) :
                /\ "main" \in DOMAIN connections[t[1]]
                /\ t[2] <= Len(connections[t[1]].main)
                /\ connections[t[1]].main[t[2]] # None
                /\ t[3] <= Len(Get(connections[t[1]].main[t[2]]))
                /\ Get(connections[t[1]].main[t[2]])[t[3]].node = name}}

\* nodes.find(node => node.id === ref || node.name === ref) and the report
\* built around the node found.
get_node(wf, args) ==
    LET index == findIndex(wf.nodes, args.nodeId)
    IN IF index = 0
       THEN [throws |-> Some(Error("Node with ID or name not found in workflow",
                                   args.nodeId)),
             node |-> None, connections |-> None]
       ELSE LET targetNode == wf.nodes[index]
            IN [throws |-> None,
                node |-> Some(targetNode),
                connections |->
                    Some([outgoing |-> IF targetNode.name \in DOMAIN wf.connections
                                       THEN Some(wf.connections[targetNode.name])
                                       ELSE None,
                          incoming |-> incoming(wf.connections, targetNode.name)])]

\* The result of a get_node call: what Returned keeps, and the node and
\* connections reported.
Reported(returned, report) ==
    [f \in (DOMAIN returned) \cup {"node", "connections"} |->
        IF f = "node" THEN report.node
        ELSE IF f = "connections" THEN report.connections
        ELSE returned[f]]

GetArgs == [nodeId : NodeRefs]

ReceiveGet ==
    /\ call = Idle
    /\ \E args \in GetArgs : call' = Received("get_node", args)
    /\ UNCHANGED <<engine, server>>

GetNode ==
    /\ Executing("get_node")
    /\ \E getStatus \in GetStatuses :
        call' =
            IF call.args.nodeId = ""
            THEN Returned("get_node", call.args, engine,
                          Some(Error("workflowId is required", "")), 0, None)
            ELSE IF getStatus # 200
            THEN Returned("get_node", call.args, engine,
                          Some(Error("Failed to fetch workflow", "")), 1, None)
            ELSE LET report == get_node(engine, call.args)
                 IN Reported(Returned("get_node", call.args, engine,
                                      report.throws, 1, None), report)
    /\ UNCHANGED <<engine, server>>

\* The calls of Spec and get_node by every reference.
ResolveNext ==
    \/ Next
    \/ ReceiveGet
    \/ GetNode

SpecResolve == Init /\ [][ResolveNext]_vars

\* ----------------------------------------------------------- input indexes

\* The calls of SpecIndex: those of SpecNodes, and a connections object whose
\* Target has a negative input index.
NegativeIndexTo(n) ==
    [t \in {"main"} |-> << Some(<< [node |-> n, type |-> "main", index |-> -1] >>) >>]

IndexConnArgs ==
    NodeConnArgs \cup
    [connections : {Some(ConnectionsObject(<<"A">>, [k \in {"A"} |-> NegativeIndexTo("B")]))}]

IndexNext ==
    \/ Receive(NodeAddArgs, NodeUpdateArgs, NodeRemoveArgs, IndexConnArgs)
    \/ AddNode
    \/ UpdateNode
    \/ RemoveNode
    \/ UpdateNodeConnections
    \/ Respond

SpecIndex == Init /\ [][IndexNext]_vars

\* -------------------------------------------------------------- parameters

\* The calls of SpecParams, which is about update_node's parameters: patches
\* that add a key, overwrite one, or both.
ParameterPatches ==
    {[url |-> "http://other"], [method |-> "POST"],
     [url |-> "http://other", method |-> "POST"]}

ParamUpdateArgs ==
    [nodeId : NodeNames, name : {None},
     parameters : {Some(P) : P \in ParameterPatches}, position : {None}]

ParamsNext ==
    \/ Receive(NodeAddArgs, ParamUpdateArgs, NodeRemoveArgs, NodeConnArgs)
    \/ AddNode
    \/ UpdateNode
    \/ RemoveNode
    \/ UpdateNodeConnections
    \/ Respond

SpecParams == Init /\ [][ParamsNext]_vars

\* ------------------------------------------------------------- two callers

\* Two tool calls in flight at once.  A handler awaits its GET and its PUT, so
\* the steps of two calls interleave at those points: each call fetches, and
\* later edits what it fetched and sends it.  In SpecCallers the variable
\* call holds one call per caller.
Callers == {"c1", "c2"}

\* The arguments callers pass to each tool.
CallerArgs(tool) ==
    CASE tool = "add_node" ->
            {[name |-> "Start", nodeType |-> HttpType,
              parameters |-> Some(UrlParams), position |-> Some(<<300, 100>>)]}
      [] tool = "update_node" ->
            [nodeId : {"A", "B"}, name : {Some("Start")},
             parameters : {None}, position : {None}]
      [] tool = "remove_node" -> [nodeId : NodeNames]
      [] tool = "update_node_connections" ->
            [connections : {Some(ConnectionsObject(<<>>, EmptyObject))}]

\* What the handler of a tool computes from the workflow it fetched.
Handler(tool, wf, args, newNodeId) ==
    CASE tool = "add_node" -> add_node(wf, args, newNodeId)
      [] tool = "update_node" -> update_node(wf, args)
      [] tool = "remove_node" -> remove_node(wf, args)
      [] tool = "update_node_connections" -> update_node_connections(wf, args)

InitCallers ==
    /\ engine = InitialWorkflow
    /\ call = [c \in Callers |-> Idle]
    /\ server = Started("key")

\* await apiClient.get(...) of caller c's call returns.
Fetch(c) ==
    /\ call[c] = Idle
    /\ \E tool \in {"add_node", "update_node", "remove_node", "update_node_connections"},
          getStatus \in GetStatuses :
        \E args \in CallerArgs(tool) :
            /\ tool = "add_node" => Len(engine.nodes) < MaxNodes
            /\ call' = [call EXCEPT ![c] =
                    IF getStatus = 200
                    THEN [phase |-> "fetched", tool |-> tool, args |-> args,
                          fetched |-> engine]
                    ELSE [phase |-> "done", tool |-> tool, args |-> args,
                          fetched |-> engine, newNodeId |-> "",
                          error |-> Some(Error("Failed to fetch workflow", "")),
                          sent |-> None, after |-> {}]]
    /\ UNCHANGED <<engine, server>>

\* A version check the code does not have: the call is refused when the
\* engine's workflow is no longer the one fetched.
Persist_Versioned(c) ==
    /\ call[c].phase = "fetched"
    /\ \E newNodeId \in NodeIds, putStatus \in PutStatuses :
        LET mine == call[c]
            outcome == Handler(mine.tool, mine.fetched, mine.args, newNodeId)
            done(error, sent) ==
                [phase |-> "done", tool |-> mine.tool, args |-> mine.args,
                 fetched |-> mine.fetched, newNodeId |-> newNodeId,
                 error |-> error, sent |-> sent,
                 after |-> {d \in Callers \ {c} :
                              /\ call[d].phase = "done"
                              /\ call[d].error = None}]
        IN /\ FreshId(mine.fetched.nodes, newNodeId)
           /\ IF outcome.throws # None
              THEN /\ call' = [call EXCEPT ![c] = done(outcome.throws, None)]
                   /\ UNCHANGED <<engine, server>>
              ELSE IF engine # mine.fetched
              THEN /\ call' = [call EXCEPT ![c] =
                            done(Some(Error("Workflow changed since it was fetched", "")),
                                 None)]
                   /\ UNCHANGED <<engine, server>>
              ELSE IF putStatus # 200
              THEN /\ call' = [call EXCEPT ![c] =
                            done(Some(Error("Failed to update workflow", "")),
                                 outcome.body)]
                   /\ UNCHANGED <<engine, server>>
              ELSE /\ call' = [call EXCEPT ![c] = done(None, outcome.body)]
                   /\ engine' = EnginePut(engine, Get(outcome.body))
                   /\ UNCHANGED server

\* The rest of caller c's call: the handler's edit of what it fetched, and the
\* PUT.  after is the set of callers whose PUT the engine took before this
\* call ended.
Persist(c) ==
    /\ call[c].phase = "fetched"
    /\ \E newNodeId \in NodeIds, putStatus \in PutStatuses :
        LET mine == call[c]
            outcome == Handler(mine.tool, mine.fetched, mine.args, newNodeId)
            done(error, sent) ==
                [phase |-> "done", tool |-> mine.tool, args |-> mine.args,
                 fetched |-> mine.fetched, newNodeId |-> newNodeId,
                 error |-> error, sent |-> sent,
                 after |-> {d \in Callers \ {c} :
                              /\ call[d].phase = "done"
                              /\ call[d].error = None}]
        IN /\ FreshId(mine.fetched.nodes, newNodeId)
           /\ IF outcome.throws # None
              THEN /\ call' = [call EXCEPT ![c] = done(outcome.throws, None)]
                   /\ UNCHANGED <<engine, server>>
              ELSE IF putStatus # 200
              THEN /\ call' = [call EXCEPT ![c] =
                            done(Some(Error("Failed to update workflow", "")),
                                 outcome.body)]
                   /\ UNCHANGED <<engine, server>>
              ELSE /\ call' = [call EXCEPT ![c] = done(None, outcome.body)]
                   /\ engine' = EnginePut(engine, Get(outcome.body))
                   /\ UNCHANGED server

\* Both results have gone back to their callers.
RespondBoth ==
    /\ \A c \in Callers : call[c].phase = "done"
    /\ call' = [c \in Callers |-> Idle]
    /\ UNCHANGED <<engine, server>>

CallersNext ==
    \/ \E c \in Callers : Fetch(c)
    \/ \E c \in Callers : Persist(c)
    \/ RespondBoth

SpecCallers == InitCallers /\ [][CallersNext]_vars

\* -------------------------------------------------------- validate_workflow

\* Most nodes of the workflows validate_workflow is given.
MaxValidateNodes == 11

\* node.type.includes('trigger'): the types of the model that contain the
\* lower-case substring.
includesTrigger(type) == type \in {"custom.trigger"}

triggerTypes ==
    {"n8n-nodes-base.manualTrigger", "n8n-nodes-base.cronTrigger",
     "n8n-nodes-base.webhookTrigger", "n8n-nodes-base.httpTrigger"}

\* connectedNodes: every key of connections and every Target under .main.
connectedNodes(connections) ==
    (DOMAIN connections) \cup
    UNION {{Flatten(connections[sourceName].main)[j].node
                : j \in 1..Len(Flatten(connections[sourceName].main))}
            : sourceName \in {k \in DOMAIN connections :
                                "main" \in DOMAIN connections[k]}}

\* warnings.push({ type, message, node }) for each of the nodes hit, in the
\* order of the node list.
warningsFor(hit, type) == [i \in 1..Len(hit) |-> [type |-> type, node |-> hit[i].name]]

\* A slip: the score is not held at 0.
validationScore_NoFloor(issues, warnings) ==
    100 - (Len(issues) * 20) - (Len(warnings) * 5)

\* Math.max(0, 100 - (issues.length * 20) - (warnings.length * 5))
validationScore(issues, warnings) ==
    MaxOf({0, 100 - (Len(issues) * 20) - (Len(warnings) * 5)})

validate_workflow(wf) ==
    LET nodes == wf.nodes
        connected == connectedNodes(wf.connections)
        issues == <<>>
        warnings ==
            warningsFor(SelectSeq(nodes, LAMBDA node :
                            node.name \notin connected /\ Len(nodes) > 1),
                        "orphaned_node")
            \o warningsFor(SelectSeq(nodes, LAMBDA node : "parameters" \notin DOMAIN node),
                           "missing_parameters")
            \o warningsFor(SelectSeq(nodes, LAMBDA node : "position" \notin DOMAIN node),
                           "missing_position")
        hasTrigger ==
            \E i \in 1..Len(nodes) :
                includesTrigger(nodes[i].type) \/ nodes[i].type \in triggerTypes
        hasErrorWorkflow ==
            \E i \in 1..Len(nodes) :
                /\ "parameters" \in DOMAIN nodes[i]
                /\ "continueOnFail" \in DOMAIN nodes[i].parameters
                /\ nodes[i].parameters.continueOnFail = TRUE
        suggestions ==
            (IF ~hasTrigger /\ Len(nodes) > 0 THEN <<"add_trigger">> ELSE <<>>)
            \o (IF ~hasErrorWorkflow /\ Len(nodes) > 3 THEN <<"error_handling">> ELSE <<>>)
            \o (IF Len(nodes) > 10 THEN <<"performance">> ELSE <<>>)
    IN [isValid |-> Len(issues) = 0,
        validationScore |-> validationScore(issues, warnings),
        issues |-> issues, warnings |-> warnings, suggestions |-> suggestions]

\* The result of a validate_workflow call: what Returned keeps, and the report.
Validated(returned, report) ==
    [f \in (DOMAIN returned) \cup {"report"} |->
        IF f = "report" THEN report ELSE returned[f]]

\* The workflows of SpecValidate: n nodes named N1..Nn, the first a trigger
\* or not; with parameters and position or without them; unconnected, wired
\* in a chain through main, or the first wired to the second through ai_tool.
NodeName(i) == "N" \o ToString(i)

ValidateNode(i, trigger, bare) ==
    LET node == Node("id" \o ToString(i), NodeName(i),
                     IF i = 1 /\ trigger THEN TriggerType ELSE HttpType,
                     <<300 * i, 100>>, UrlParams)
    IN IF bare THEN [f \in (DOMAIN node) \ {"parameters", "position"} |-> node[f]]
       ELSE node

Wiring(n, wires) ==
    CASE wires = "chain" ->
            [k \in {NodeName(i) : i \in 1..(n - 1)} |->
                MainTo(NodeName(1 + CHOOSE i \in 1..(n - 1) : NodeName(i) = k))]
      [] wires = "ai_tool" /\ n >= 2 ->
            [k \in {NodeName(1)} |-> AiToolTo(NodeName(2))]
      [] OTHER -> EmptyObject

ValidateDocuments ==
    {[InitialWorkflow EXCEPT
        !.nodes = [i \in 1..n |-> ValidateNode(i, trigger, bare)],
        !.connections = Wiring(n, wires)]
        : n \in 0..MaxValidateNodes, trigger \in BOOLEAN, bare \in BOOLEAN,
          wires \in {"none", "chain", "ai_tool"}}

ValidateArgs == [workflowId : {"wf1", ""}]

InitValidate ==
    /\ engine \in ValidateDocuments
    /\ call = Idle
    /\ server = Started("key")

ReceiveValidate ==
    /\ call = Idle
    /\ \E args \in ValidateArgs : call' = Received("validate_workflow", args)
    /\ UNCHANGED <<engine, server>>

ValidateWorkflow ==
    /\ Executing("validate_workflow")
    /\ \E getStatus \in GetStatuses :
        call' =
            IF call.args.workflowId = ""
            THEN Returned("validate_workflow", call.args, engine,
                          Some(Error("workflowId is required", "")), 0, None)
            ELSE IF getStatus # 200
            THEN Returned("validate_workflow", call.args, engine,
                          Some(Error("Failed to fetch workflow", "")), 1, None)
            ELSE Validated(Returned("validate_workflow", call.args, engine, None, 1, None),
                           validate_workflow(engine))
    /\ UNCHANGED <<engine, server>>

ValidateNext ==
    \/ ReceiveValidate
    \/ ValidateWorkflow
    \/ Respond

SpecValidate == InitValidate /\ [][ValidateNext]_vars

\* ------------------------------------------------------------ node types

\* Most nodes of the workflows whose node types vary.
MaxTypedNodes == 2

\* Node types of SpecTypes: an HTTP node, a listed trigger, a type with the
\* lower-case substring, and a trigger type that is spelled with a capital T
\* and not listed.
NodeTypes == {HttpType, TriggerType, "custom.trigger", "x.scheduleTrigger"}

TypedDocuments ==
    UNION {{[InitialWorkflow EXCEPT
                !.nodes = [i \in 1..n |->
                              Node("id" \o ToString(i), NodeName(i), types[i],
                                   <<300 * i, 100>>, UrlParams)],
                !.connections = EmptyObject]
              : types \in [1..n -> NodeTypes]}
           : n \in 0..MaxTypedNodes}

InitTypes ==
    /\ engine \in TypedDocuments
    /\ call = Idle
    /\ server = Started("key")

SpecTypes == InitTypes /\ [][ValidateNext]_vars

\* --------------------------------------------------- validation after edits

\* The calls of SpecNodes, and validate_workflow on the workflows they leave.
AnalyzeNext ==
    \/ NodesNext
    \/ ReceiveValidate
    \/ ValidateWorkflow

SpecAnalyze == Init /\ [][AnalyzeNext]_vars

\* ------------------------------------------------------- get_workflow_stats

\* Most execution records the engine returns.
MaxExecutions == 2

\* Timestamps are counted in seconds; the handler's milliseconds are seconds
\* times 1000.  The clock reads Now; a record started a day ago is inside
\* every window, one started ten days ago is outside a window of seven days.
SecondsPerDay == 24 * 60 * 60
Now == 40 * SecondsPerDay
DefaultDays == 30

ExecutionStatuses == {"success", "error", "failed", "running", "waiting", "canceled"}

\* Records of the last day in every shape, and two finished records of ten
\* days ago.
ExecutionRecords ==
    [status : {None} \cup {Some(st) : st \in ExecutionStatuses},
     finished : {None, Some(TRUE), Some(FALSE)},
     startedAt : {Now - SecondsPerDay},
     stoppedAt : {None, Some(Now - SecondsPerDay + 1000)}]
    \cup
    [status : {Some("success"), Some("error")},
     finished : {Some(TRUE)},
     startedAt : {Now - 10 * SecondsPerDay},
     stoppedAt : {Some(Now - 10 * SecondsPerDay + 1000)}]

\* The lists of at most n execution records.
ExecutionLists(n) == UNION {[1..k -> ExecutionRecords] : k \in 0..n}

\* Math.round(numerator / denominator) for a non-negative quotient.
Round(numerator, denominator) == (2 * numerator + denominator) \div (2 * denominator)

\* recentExecutions: execDate >= cutoffDate, cutoffDate = now - days * 24h.
recentExecutions(executions, now, days) ==
    SelectSeq(executions, LAMBDA exec : exec.startedAt >= now - days * SecondsPerDay)

\* exec.status === 'success' || exec.finished === true && !exec.stoppedAt
isSuccessful(exec) ==
    exec.status = Some("success") \/ (exec.finished = Some(TRUE) /\ exec.stoppedAt = None)

isFailed(exec) == exec.status = Some("error") \/ exec.status = Some("failed")

isRunning(exec) == exec.status = Some("running") \/ exec.status = Some("waiting")

\* stop.getTime() - start.getTime() of the records with both timestamps, in
\* milliseconds.
executionTimes(recent) ==
    LET timed == SelectSeq(recent, LAMBDA exec : exec.stoppedAt # None)
    IN [i \in 1..Len(timed) |-> (Get(timed[i].stoppedAt) - timed[i].startedAt) * 1000]

RECURSIVE Sum(_)
Sum(seq) == IF seq = <<>> THEN 0 ELSE Head(seq) + Sum(Tail(seq))

\* A slip: the rate of a window without records is 100 per cent.
successRate_Hundred(successful, total) ==
    IF total > 0 THEN Round(successful * 10000, total) ELSE 10000

\* Math.round(successRate * 100) / 100 with successRate = successful / total
\* * 100, or 0 without records: the rate in hundredths of a per cent.
successRate(successful, total) ==
    IF total > 0 THEN Round(successful * 10000, total) ELSE 0

get_workflow_stats(wf, executions, now, args) ==
    LET days == IF args.days = None THEN DefaultDays ELSE Get(args.days)
        recent == recentExecutions(executions, now, days)
        times == executionTimes(recent)
        successful == Len(SelectSeq(recent, isSuccessful))
        rate == successRate(successful, Len(recent))
    IN [workflowName |-> wf.name,
        isActive |-> wf.active,
        days |-> days,
        totalExecutions |-> Len(recent),
        successful |-> successful,
        failed |-> Len(SelectSeq(recent, isFailed)),
        running |-> Len(SelectSeq(recent, isRunning)),
        successRate |-> rate,
        avgExecutionTimeMs |-> IF Len(times) > 0 THEN Round(Sum(times), Len(times)) ELSE 0,
        maxExecutionTimeMs |->
            IF Len(times) > 0 THEN MaxOf({times[i] : i \in 1..Len(times)}) ELSE 0,
        avgExecutionsPerDay |-> Round(Len(recent) * 100, days),
        executionsByDay |->
            [day \in {recent[i].startedAt \div SecondsPerDay : i \in 1..Len(recent)} |->
                Cardinality({i \in 1..Len(recent) :
                                recent[i].startedAt \div SecondsPerDay = day})],
        rating |-> IF Len(recent) = 0 THEN "poor"
                   ELSE IF successful * 100 >= 95 * Len(recent) THEN "excellent"
                   ELSE IF successful * 100 >= 85 * Len(recent) THEN "good"
                   ELSE IF successful * 100 >= 70 * Len(recent) THEN "fair" ELSE "poor",
        avgExecutionTime |-> IF Len(times) = 0 \/ Sum(times) < 10000 * Len(times) THEN "fast"
                             ELSE IF Sum(times) < 30000 * Len(times) THEN "moderate"
                             ELSE "slow",
        lastExecution |->
            IF Len(recent) > 0
            THEN Some([date |-> recent[1].startedAt,
                       status |-> IF recent[1].status # None THEN Get(recent[1].status)
                                  ELSE IF recent[1].finished = Some(TRUE) THEN "success"
                                  ELSE "unknown"])
            ELSE None]

\* The result of a get_workflow_stats call: what Returned keeps, and the
\* statistics.
Counted(returned, stats) ==
    [f \in (DOMAIN returned) \cup {"stats"} |->
        IF f = "stats" THEN stats ELSE returned[f]]

StatsArgs == [workflowId : {"wf1", ""}, days : {None, Some(7)}]

\* In SpecStats the variable engine holds the workflow together with the
\* execution records of the engine and its clock.
InitStats ==
    /\ engine \in [workflow : {InitialWorkflow},
                   executions : ExecutionLists(MaxExecutions), now : {Now}]
    /\ call = Idle
    /\ server = Started("key")

ReceiveStats ==
    /\ call = Idle
    /\ \E args \in StatsArgs : call' = Received("get_workflow_stats", args)
    /\ UNCHANGED <<engine, server>>

GetWorkflowStats ==
    /\ Executing("get_workflow_stats")
    /\ \E getStatus \in GetStatuses, executionsStatus \in GetStatuses :
        call' =
            IF call.args.workflowId = ""
            THEN Returned("get_workflow_stats", call.args, engine,
                          Some(Error("workflowId is required", "")), 0, None)
            ELSE IF getStatus # 200
            THEN Returned("get_workflow_stats", call.args, engine,
                          Some(Error("Failed to fetch workflow", "")), 1, None)
            ELSE IF executionsStatus # 200
            THEN Returned("get_workflow_stats", call.args, engine,
                          Some(Error("Failed to fetch executions", "")), 2, None)
            ELSE Counted(Returned("get_workflow_stats", call.args, engine, None, 2, None),
                         get_workflow_stats(engine.workflow, engine.executions,
                                            engine.now, call.args))
    /\ UNCHANGED <<engine, server>>

StatsNext ==
    \/ ReceiveStats
    \/ GetWorkflowStats
    \/ Respond

SpecStats == InitStats /\ [][StatsNext]_vars

\* ------------------------------------------- update_workflow, create_workflow

\* Documents as the engine returns them: the fields of InitialWorkflow, and
\* possibly staticData or versionId next to them.
WithField(wf, field, value) ==
    [f \in (DOMAIN wf) \cup {field} |-> IF f = field THEN value ELSE wf[f]]

FetchedDocuments ==
    {InitialWorkflow,
     WithField(InitialWorkflow, "staticData", EmptyObject),
     WithField(InitialWorkflow, "versionId", "v1")}

\* The settings create_workflow sends.
DefaultSettings ==
    [saveExecutionProgress |-> TRUE, saveManualExecutions |-> TRUE,
     saveDataErrorExecution |-> "all", saveDataSuccessExecution |-> "all",
     executionTimeout |-> 3600, timezone |-> "UTC"]

\* { ...currentWorkflowResp.data } with the given name, nodes and connections
\* put in, and the read-only fields deleted.
update_workflow(wf, args) ==
    LET named == IF args.name = None THEN wf ELSE [wf EXCEPT !.name = Get(args.name)]
        withNodes == IF args.nodes = None THEN named
                     ELSE [named EXCEPT !.nodes = Get(args.nodes)]
        updatePayload == IF args.connections = None THEN withNodes
                         ELSE [withNodes EXCEPT !.connections = Get(args.connections)]
    IN Send(StripReadOnly(updatePayload))

create_workflow(args) ==
    IF args.name = "" THEN Throw(Error("name is required", ""))
    ELSE IF args.nodes = None THEN Throw(Error("nodes array is required", ""))
    ELSE Send([name |-> args.name,
               nodes |-> Get(args.nodes),
               connections |-> IF args.connections = None THEN EmptyObject
                               ELSE Get(args.connections),
               settings |-> DefaultSettings])

WorkflowUpdateArgs ==
    [workflowId : {"wf1", ""},
     name : {None, Some("Renamed")},
     nodes : {None},
     connections : {None, Some(EmptyObject)}]

WorkflowCreateArgs ==
    [name : {"", "Created"},
     nodes : {None, Some(<<>>), Some(<< Node("id1", "A", TriggerType, <<0, 0>>, EmptyObject) >>)},
     connections : {None, Some(MainTo("A"))}]

InitFields ==
    /\ engine \in FetchedDocuments
    /\ call = Idle
    /\ server = Started("key")

ReceiveWorkflow ==
    /\ call = Idle
    /\ \/ \E args \in WorkflowUpdateArgs : call' = Received("update_workflow", args)
       \/ \E args \in WorkflowCreateArgs : call' = Received("create_workflow", args)
    /\ UNCHANGED <<engine, server>>

UpdateWorkflow ==
    /\ Executing("update_workflow")
    /\ \E getStatus \in GetStatuses, putStatus \in PutStatuses :
        ToolCall("update_workflow", call.args, call.args.workflowId # "",
                 update_workflow(engine, call.args), getStatus, putStatus)

\* create_workflow sends one POST and no GET or PUT; the document it creates
\* is another one than the workflow the variable engine follows.
CreateWorkflow ==
    /\ Executing("create_workflow")
    /\ \E postStatus \in {200, 201, 400} :
        LET outcome == create_workflow(call.args)
            error == IF outcome.throws # None THEN outcome.throws
                     ELSE IF postStatus \notin {200, 201}
                     THEN Some(Error("Failed to create workflow", ""))
                     ELSE None
        IN call' = [Returned("create_workflow", call.args, engine, error, 0, outcome.body)
                        EXCEPT !.puts = 0]
    /\ UNCHANGED <<engine, server>>

FieldsNext ==
    \/ Receive(NodeAddArgs, NodeUpdateArgs, NodeRemoveArgs, NodeConnArgs)
    \/ ReceiveWorkflow
    \/ AddNode
    \/ UpdateNode
    \/ RemoveNode
    \/ UpdateNodeConnections
    \/ UpdateWorkflow
    \/ CreateWorkflow
    \/ Respond

SpecFields == InitFields /\ [][FieldsNext]_vars

\* ------------------------------------------------- remove_node, wider graphs

\* Outputs of one source as the engine stores them: slots with several
\* Targets, unconnected (null) and empty slots, both connection types.
FrameOutputs ==
    {[t \in {"main"} |-> << Some(<< Target("B", "main"), Target("Start", "main") >>),
                            None,
                            Some(<< Target("A", "main") >>) >>],
     [t \in {"main", "ai_tool"} |->
        IF t = "main"
        THEN << Some(<< Target("Start", "main"), Target("B", "main"),
                        Target("Start", "main") >>) >>
        ELSE << Some(<< Target("B", "ai_tool"), Target("A", "ai_tool") >>) >>],
     [t \in {"ai_tool"} |-> << None, Some(<< Target("A", "ai_tool") >>) >>],
     [t \in {"main"} |-> << Some(<<>>) >>]}

\* Workflows of three nodes A, B and Start, with A and Start as sources.
FrameDocuments ==
    {[InitialWorkflow EXCEPT
        !.nodes = Append(@, Node("id3", "Start", HttpType, <<600, 100>>, UrlParams)),
        !.connections = connections]
     : connections \in [{"A", "Start"} -> FrameOutputs]}

InitFrame ==
    /\ engine \in FrameDocuments
    /\ call = Idle
    /\ server = Started("key")

ReceiveRemove ==
    /\ call = Idle
    /\ \E args \in RemoveArgs : call' = Received("remove_node", args)
    /\ UNCHANGED <<engine, server>>

FrameNext ==
    \/ ReceiveRemove
    \/ RemoveNode
    \/ Respond

SpecFrame == InitFrame /\ [][FrameNext]_vars

\* ------------------------------------------------------------ limited mode

\* The early return of executeToolWithErrorHandling: the tool requires the
\* API and the key is not configured.
ConfigurationRequired ==
    /\ call.phase = "received"
    /\ server.exitCode = None
    /\ requiresApiKey(call.tool) /\ ~isConfigured
    /\ call' = Returned(call.tool, call.args, engine,
                        Some(Error("Configuration required", call.tool)), 0, None)
    /\ UNCHANGED <<engine, server>>

ReceiveHealth ==
    /\ call = Idle
    /\ call' = Received("health_check", EmptyObject)
    /\ UNCHANGED <<engine, server>>

\* case 'health_check': a connectivity test (one GET) when the key is
\* configured, the status 'not-configured' otherwise.
HealthCheck ==
    /\ Executing("health_check")
    /\ \E getStatus \in GetStatuses :
        call' =
            IF ~isConfigured
            THEN WithField(Returned("health_check", call.args, engine, None, 0, None),
                           "status", "not-configured")
            ELSE IF getStatus = 200
            THEN WithField(Returned("health_check", call.args, engine, None, 1, None),
                           "status", "healthy")
            ELSE [WithField(Returned("health_check", call.args, engine, None, 1, None),
                            "status", "unhealthy") EXCEPT !.isError = TRUE]
    /\ UNCHANGED <<engine, server>>

InitLimited ==
    /\ engine = InitialWorkflow
    /\ call = Idle
    /\ server \in {Started("key"), Started("not-configured")}

LimitedNext ==
    \/ Receive(NodeAddArgs, NodeUpdateArgs, NodeRemoveArgs, NodeConnArgs)
    \/ ReceiveHealth
    \/ ConfigurationRequired
    \/ HealthCheck
    \/ AddNode
    \/ UpdateNode
    \/ RemoveNode
    \/ UpdateNodeConnections
    \/ Respond

SpecLimited == InitLimited /\ [][LimitedNext]_vars

\* ------------------------------------------------- main() and the shutdown

\* Most signals and uncaught exceptions the process receives.
MaxEvents == 3

\* The old behaviour: the last failed attempt throws, and main() exits.
afterFailure_Throw(attempt) == IF attempt = max_retries THEN "failed" ELSE "wait"

\* Where main() goes after a failed connectivity attempt: on to the server
\* after the last one (break), to the wait before the next one otherwise.
afterFailure(attempt) == IF attempt = max_retries THEN "configure" ELSE "wait"

\* A slip: the test of isShuttingDown is missing.
alreadyShuttingDown_Never(process) == FALSE

\* if (isShuttingDown) { ...; return; }
alreadyShuttingDown(process) == process.isShuttingDown

\* The process has not exited.
Alive == server.exitCode = None

InitProcess ==
    /\ engine = InitialWorkflow
    /\ call = Idle
    /\ server \in {Booting("key"), Booting("not-configured")}

\* getDxtEnvironmentConfig and the test of the key: without a key main()
\* skips the connectivity test.
LoadConfiguration ==
    /\ Alive /\ server.main = "start"
    /\ server' = [server EXCEPT !.main = IF isConfigured THEN "test" ELSE "configure"]
    /\ UNCHANGED <<engine, call>>

\* One pass of the retry loop: testConnectivity answers or throws.
TestConnectivity ==
    /\ Alive /\ server.main = "test"
    /\ \E getStatus \in GetStatuses :
        LET attempt == server.attempt + 1
            next == afterFailure(attempt)
        IN server' =
            IF getStatus = 200
            THEN [server EXCEPT !.attempt = attempt, !.connectivityTestPassed = TRUE,
                                !.trail = Append(@, "passed"), !.main = "configure"]
            ELSE [server EXCEPT !.attempt = attempt, !.trail = Append(@, "failed"),
                                !.main = next,
                                !.exitCode = IF next = "failed" THEN Some(1) ELSE @]
    /\ UNCHANGED <<engine, call>>

\* await new Promise(resolve => setTimeout(resolve, 1000 * attempt))
WaitBeforeRetry ==
    /\ Alive /\ server.main = "wait"
    /\ server' = [server EXCEPT !.trail = Append(@, "wait"), !.main = "test"]
    /\ UNCHANGED <<engine, call>>

\* const server = configureServer(config); serverInstance = server;
ConfigureServer ==
    /\ Alive /\ server.main = "configure"
    /\ server' = [server EXCEPT !.serverInstance = TRUE,
                                !.trail = Append(@, "configure"), !.main = "connect"]
    /\ UNCHANGED <<engine, call>>

\* await server.connect(transport): the transport is connected, or the
\* rejection is caught by main() and the process exits with code 1.
Connect ==
    /\ Alive /\ server.main = "connect"
    /\ \E connected \in BOOLEAN :
        server' = [server EXCEPT !.trail = Append(@, "connect"),
                                 !.main = IF connected THEN "started" ELSE "failed",
                                 !.exitCode = IF connected THEN @ ELSE Some(1)]
    /\ UNCHANGED <<engine, call>>

\* A handler of process.on runs gracefulShutdown up to its await: a later
\* event is ignored; the first sets isShuttingDown and calls close() on the
\* server instance, or, without one, resolves at once and exits.
Signal ==
    /\ Alive /\ server.events < MaxEvents
    /\ \E signal \in ShutdownSignals :
        server' =
            IF alreadyShuttingDown(server)
            THEN [server EXCEPT !.events = @ + 1, !.ignored = @ + 1]
            ELSE IF server.serverInstance
            THEN [server EXCEPT !.events = @ + 1, !.isShuttingDown = TRUE,
                                !.signal = Some(signal),
                                !.closeCalls = @ + 1, !.close = "pending",
                                !.shutdownPromise = "pending"]
            ELSE [server EXCEPT !.events = @ + 1, !.isShuttingDown = TRUE,
                                !.signal = Some(signal),
                                !.shutdownPromise = "resolved", !.exitCode = Some(0)]
    /\ UNCHANGED <<engine, call>>

\* close() completes or throws: the timer is cleared, the promise resolves
\* and the process exits.
CloseSettles ==
    /\ Alive /\ server.shutdownPromise = "pending"
    /\ \E outcome \in {"closed", "threw"} :
        server' = [server EXCEPT !.close = outcome, !.shutdownPromise = "resolved",
                                 !.exitCode = Some(0)]
    /\ UNCHANGED <<engine, call>>

\* The timer of DXT_CONFIG.shutdown_timeout fires while close() is pending.
ShutdownTimeout ==
    /\ Alive /\ server.shutdownPromise = "pending"
    /\ server' = [server EXCEPT !.shutdownPromise = "timeout", !.exitCode = Some(0)]
    /\ UNCHANGED <<engine, call>>

MainStep ==
    \/ LoadConfiguration
    \/ TestConnectivity
    \/ WaitBeforeRetry
    \/ ConfigureServer
    \/ Connect

ProcessNext ==
    \/ LoadConfiguration
    \/ TestConnectivity
    \/ WaitBeforeRetry
    \/ ConfigureServer
    \/ Connect
    \/ Signal
    \/ CloseSettles
    \/ ShutdownTimeout

SpecProcess == InitProcess /\ [][ProcessNext]_vars

\* The event loop runs every continuation of main() that is ready and fires
\* every timer that is due; a signal need not arrive and close() need not
\* settle.
SpecProcessFair ==
    /\ InitProcess /\ [][ProcessNext]_vars
    /\ WF_vars(MainStep)
    /\ WF_vars(ShutdownTimeout)

\* ------------------------------------------------------------------ layout

\* The calls of SpecLayout, which is about where add_node puts a node: nodes
\* added without a position, nodes moved to the left of the origin, removals.
LayoutAddArgs ==
    {[name |-> n, nodeType |-> HttpType, parameters |-> None, position |-> None]
        : n \in NodeNames}

LayoutUpdateArgs ==
    [nodeId : NodeNames, name : {None}, parameters : {None},
     position : {Some(<<-500, 0>>)}]

LayoutConnArgs == [connections : {Some(ConnectionsObject(<<>>, EmptyObject))}]

ReceiveLayout ==
    /\ call = Idle
    /\ \/ \E args \in LayoutAddArgs :
            /\ Len(engine.nodes) < MaxLayoutNodes
            /\ maxX(engine.nodes) < MaxColumn * 300
            /\ call' = Received("add_node", args)
       \/ \E args \in LayoutUpdateArgs : call' = Received("update_node", args)
       \/ \E args \in NodeRemoveArgs : call' = Received("remove_node", args)
       \/ \E args \in LayoutConnArgs : call' = Received("update_node_connections", args)
    /\ UNCHANGED <<engine, server>>

LayoutNext ==
    \/ ReceiveLayout
    \/ AddNode
    \/ UpdateNode
    \/ RemoveNode
    \/ UpdateNodeConnections
    \/ Respond

SpecLayout == Init /\ [][LayoutNext]_vars

\* ------------------------------------------------- what the claims speak of

NamesOf(wf) == {wf.nodes[i].name : i \in 1..Len(wf.nodes)}
IdsOf(wf) == {wf.nodes[i].id : i \in 1..Len(wf.nodes)}
IdSeq(wf) == [i \in 1..Len(wf.nodes) |-> wf.nodes[i].id]

\* seq without its i-th element.
RemoveAt(seq, i) == [j \in 1..(Len(seq) - 1) |-> IF j < i THEN seq[j] ELSE seq[j + 1]]

\* The Targets of one source's outputs, of every connection type, in reading
\* order: slot by slot, main before the other types.
TargetsOfType(outputs, type) ==
    IF type \in DOMAIN outputs THEN Flatten(outputs[type]) ELSE <<>>
TargetsOf(outputs) == TargetsOfType(outputs, "main") \o TargetsOfType(outputs, "ai_tool")

\* The edges of a connections mapping: <<source, type, slot, target, index>>.
Edges(connections) ==
    UNION { UNION { UNION { { <<s, t, i, c.node, c.index>>
                              : c \in {Get(connections[s][t][i])[j]
                                        : j \in 1..Len(Get(connections[s][t][i]))} }
                            : i \in {k \in 1..Len(connections[s][t]) :
                                        connections[s][t][k] # None} }
                    : t \in DOMAIN connections[s] }
            : s \in DOMAIN connections }

\* Every name a connections mapping mentions: its keys and its Targets.
NamesIn(connections) ==
    (DOMAIN connections) \cup {e[4] : e \in Edges(connections)}

\* The names a supplied connections object mentions, in reading order: each
\* key, followed by the Targets under it.
RECURSIVE RefsInOrder(_, _)
RefsInOrder(order, map) ==
    IF order = <<>> THEN <<>>
    ELSE LET ts == TargetsOf(map[Head(order)])
         IN <<Head(order)>> \o [j \in 1..Len(ts) |-> ts[j].node]
               \o RefsInOrder(Tail(order), map)

Offending(object, names) ==
    LET refs == RefsInOrder(object.order, object.map)
    IN {i \in 1..Len(refs) : refs[i] \notin names}

FirstOffending(object, names) ==
    RefsInOrder(object.order, object.map)[MinOf(Offending(object, names))]

ValidationMessages ==
    {"Node with name already exists in workflow",
     "Source node does not exist in workflow",
     "Target node does not exist in workflow"}

UpstreamMessages == {"Failed to fetch workflow", "Failed to update workflow"}

\* The call has returned, and it was a call of this tool.
Did(tool) == call.phase = "returned" /\ call.tool = tool
Succeeded(tool) == Did(tool) /\ ~call.isError
\* The call got the workflow from the engine and went on to its own checks.
Fetched(tool) ==
    /\ Did(tool)
    /\ call.gets = 1
    /\ call.isError => Get(call.error).message # "Failed to fetch workflow"
Failed(tool, messages) ==
    Did(tool) /\ call.isError /\ Get(call.error).message \in messages
\* A failed call left the engine's workflow alone and sent no PUT.
NothingChanged == engine = call.before /\ call.puts = 0

\* ------------------------------------------------------------------ claims

\* C1: node names stay unique.  The workflow starts with pairwise distinct
\* node names, and the engine's copy changes only by successful tool calls;
\* no two of its nodes ever have the same name.
C1_NodeNamesUnique ==
    \A i, j \in 1..Len(engine.nodes) :
        i # j => engine.nodes[i].name # engine.nodes[j].name

\* C2: referential integrity.  Every key of connections and every
\* Target.node, in every slot of every connection type, is the name of a node
\* of the workflow.
C2_ReferentialIntegrity == NamesIn(engine.connections) \subseteq NamesOf(engine)

\* C3: rename preserves edges.  When a successful update_node has changed a
\* node's name from X to Y, no key and no Target.node of connections is X,
\* and the edges are the edges from before with X replaced by Y everywhere.
C3_RenamePreservesEdges ==
    Succeeded("update_node") =>
        \A i \in 1..Len(call.before.nodes) :
            LET X == call.before.nodes[i].name
                Y == engine.nodes[i].name
                R(n) == IF n = X THEN Y ELSE n
            IN X # Y =>
                /\ X \notin NamesIn(engine.connections)
                /\ Edges(engine.connections) =
                      {<<R(e[1]), e[2], e[3], R(e[4]), e[5]>>
                          : e \in Edges(call.before.connections)}

\* update_node is asked for a name that a node has which the reference does
\* not resolve to.
NameTaken(wf, args) ==
    /\ args.name # None
    /\ \E i \in 1..Len(wf.nodes) :
        wf.nodes[i].id = args.nodeId \/ wf.nodes[i].name = args.nodeId
    /\ \E j \in 1..Len(wf.nodes) :
        /\ wf.nodes[j].name = Get(args.name)
        /\ wf.nodes[j].id # args.nodeId
        /\ wf.nodes[j].name # args.nodeId

\* C4: update_node with a new name that belongs to a different node fails
\* with a validation error, and nothing changes: the engine's workflow is as
\* before and no PUT was sent.
C4_RenameOntoTakenNameFails ==
    (Fetched("update_node") /\ NameTaken(call.before, call.args)) =>
        /\ Failed("update_node", ValidationMessages)
        /\ NothingChanged

\* C5: removal cascades fully.  After a successful remove_node the node list
\* is the old one without one node X, which the reference named by id or by
\* name, and no key and no Target.node of connections is X's name.
C5_RemovalCascades ==
    Succeeded("remove_node") =>
        /\ Len(engine.nodes) = Len(call.before.nodes) - 1
        /\ \E i \in 1..Len(call.before.nodes) :
            LET X == call.before.nodes[i]
            IN /\ X.id = call.args.nodeId \/ X.name = call.args.nodeId
               /\ engine.nodes = RemoveAt(call.before.nodes, i)
               /\ X.name \notin NamesIn(engine.connections)

\* C6: update_node_connections is atomic on failure.  When the supplied map
\* has a key or a Target.node that is no node's name, the call fails with a
\* validation error that names the first such reference, the engine's
\* workflow is as before and no PUT was sent.
C6_InvalidConnectionsRejected ==
    (/\ Fetched("update_node_connections")
     /\ Offending(Get(call.args.connections), NamesOf(call.before)) # {}) =>
        /\ Failed("update_node_connections", ValidationMessages)
        /\ Get(call.error).ref =
              FirstOffending(Get(call.args.connections), NamesOf(call.before))
        /\ NothingChanged

\* C7: update_node_connections with a fully valid map is a full replace.  The
\* call passes validation; when it succeeds the engine's connections are the
\* supplied map, so every earlier key the map lacks is gone, and the nodes
\* are as before.
C7_FullReplace ==
    (/\ Fetched("update_node_connections")
     /\ Offending(Get(call.args.connections), NamesOf(call.before)) = {}) =>
        /\ call.isError => Failed("update_node_connections", UpstreamMessages)
        /\ ~call.isError =>
            /\ engine.connections = Get(call.args.connections).map
            /\ \A k \in DOMAIN call.before.connections :
                k \notin DOMAIN Get(call.args.connections).map
                    => k \notin DOMAIN engine.connections
            /\ engine.nodes = call.before.nodes

\* A valid map without a key the old connections had has replaced them.
C7_Witness ==
    /\ Succeeded("update_node_connections")
    /\ Offending(Get(call.args.connections), NamesOf(call.before)) = {}
    /\ Get(call.args.connections).map # EmptyObject
    /\ \E k \in DOMAIN call.before.connections :
        k \notin DOMAIN Get(call.args.connections).map

\* C8: node ids stay unique.  The ids of the engine's workflow are pairwise
\* distinct; add_node gives the new node an id no node had; no call changes
\* the id of a node that stays.
C8_NodeIdsUnique ==
    /\ \A i, j \in 1..Len(engine.nodes) :
        i # j => engine.nodes[i].id # engine.nodes[j].id
    /\ Succeeded("add_node") =>
        /\ Len(engine.nodes) = Len(call.before.nodes) + 1
        /\ engine.nodes[Len(engine.nodes)].id \notin IdsOf(call.before)
        /\ SubSeq(IdSeq(engine), 1, Len(call.before.nodes)) = IdSeq(call.before)
    /\ (Succeeded("update_node") \/ Succeeded("update_node_connections")) =>
        IdSeq(engine) = IdSeq(call.before)
    /\ Succeeded("remove_node") =>
        \E i \in 1..Len(call.before.nodes) :
            IdSeq(engine) = RemoveAt(IdSeq(call.before), i)

\* add_node has added a node to a workflow that had one.
C8_Witness == Succeeded("add_node") /\ Len(engine.nodes) = 2

\* C9: add_node with a name some node already has fails with the validation
\* error that quotes the name; the engine's workflow is as before and no PUT
\* was sent.
C9_AddExistingNameFails ==
    (Fetched("add_node") /\ call.args.name \in NamesOf(call.before)) =>
        /\ Failed("add_node", {"Node with name already exists in workflow"})
        /\ Get(call.error).ref = call.args.name
        /\ NothingChanged

C9_Witness ==
    /\ Fetched("add_node")
    /\ call.args.name \in NamesOf(call.before)
    /\ call.isError

\* C10: a successful add_node appends exactly one node, of the requested type
\* and name and with the given parameters or an empty mapping; the nodes
\* there were are unchanged and in the same order, and so are the connections.
C10_AddAppendsOneNode ==
    Succeeded("add_node") =>
        LET n == Len(call.before.nodes)
        IN /\ Len(engine.nodes) = n + 1
           /\ SubSeq(engine.nodes, 1, n) = call.before.nodes
           /\ engine.nodes[n + 1].type = call.args.nodeType
           /\ engine.nodes[n + 1].name = call.args.name
           /\ engine.nodes[n + 1].parameters =
                 (IF call.args.parameters = None THEN EmptyObject
                  ELSE Get(call.args.parameters))
           /\ engine.connections = call.before.connections

\* A node without parameters was added after another node, in a workflow
\* that has connections.
C10_Witness ==
    /\ Succeeded("add_node")
    /\ Len(call.before.nodes) >= 1
    /\ call.args.parameters = None
    /\ DOMAIN call.before.connections # {}

\* The x-coordinates of a workflow's nodes, in list order.
XsOf(wf) == [i \in 1..Len(wf.nodes) |-> wf.nodes[i].position[1]]
AddedNode == engine.nodes[Len(engine.nodes)]
AutoPositioned == Succeeded("add_node") /\ call.args.position = None

\* C11: auto-position.  add_node without a position puts the node at
\* [m + 300, 100], where m is the largest x-coordinate of the nodes there were
\* (0 when there were none): each node added so is exactly 300 to the right of
\* the previous maximum.
C11_AutoPosition ==
    AutoPositioned =>
        LET xs == {XsOf(call.before)[i] : i \in 1..Len(call.before.nodes)}
            m == IF xs = {} THEN 0 ELSE MaxOf(xs)
        IN AddedNode.position = <<m + 300, 100>>

\* C11 as the code has it: the maximum is taken over the x-coordinates
\* together with 0, so the node goes to [max(0, x1, ..., xn) + 300, 100],
\* strictly to the right of every node there was, and exactly 300 beyond the
\* previous maximum whenever that maximum is not negative.
C11_AutoPositionFromZero ==
    AutoPositioned =>
        LET xs == {XsOf(call.before)[i] : i \in 1..Len(call.before.nodes)}
        IN /\ AddedNode.position = <<MaxOf(xs \cup {0}) + 300, 100>>
           /\ \A x \in xs : x < AddedNode.position[1]
           /\ (xs # {} /\ MaxOf(xs) >= 0) => AddedNode.position[1] = MaxOf(xs) + 300

\* Three nodes added in a row to a workflow left without nodes.
C11_Witness ==
    /\ AutoPositioned
    /\ XsOf(engine) = <<300, 600, 900>>

\* Some node has the reference as its id.
IdHolders(wf, ref) == {i \in 1..Len(wf.nodes) : wf.nodes[i].id = ref}

\* C12: resolution gives ids precedence.  When the reference of a get_node,
\* update_node or remove_node call is the id of a node, that node is the one
\* resolved, whatever other node has the reference as its name and wherever
\* the two stand in the list: get_node reports it, update_node renames it and
\* no other, remove_node removes it.
C12_IdsTakePrecedence ==
    (Did("get_node") \/ Did("update_node") \/ Did("remove_node")) =>
    \A i \in IdHolders(call.before, call.args.nodeId) :
        /\ Succeeded("get_node") => call.node = Some(call.before.nodes[i])
        /\ (Succeeded("update_node") /\ call.args.name # None) =>
              /\ engine.nodes[i].name = Get(call.args.name)
              /\ \A j \in (1..Len(engine.nodes)) \ {i} :
                    engine.nodes[j] = call.before.nodes[j]
        /\ Succeeded("remove_node") =>
              engine.nodes = RemoveAt(call.before.nodes, i)

\* The reference of the call is neither the id nor the name of a node.
MatchesNothing ==
    \A i \in 1..Len(call.before.nodes) :
        /\ call.before.nodes[i].id # call.args.nodeId
        /\ call.before.nodes[i].name # call.args.nodeId

\* C13: update_node and remove_node with a reference that is neither the id
\* nor the name of a node fail with the not-found error that quotes the
\* reference; the engine's workflow is as before and no PUT was sent.
C13_UnknownReferenceNotFound ==
    \A tool \in {"update_node", "remove_node"} :
        (Fetched(tool) /\ MatchesNothing) =>
            /\ Failed(tool, {"Node with ID or name not found in workflow"})
            /\ Get(call.error).ref = call.args.nodeId
            /\ NothingChanged

\* remove_node was asked for a node a workflow with nodes does not have.
C13_Witness ==
    /\ Fetched("remove_node")
    /\ MatchesNothing
    /\ call.isError
    /\ call.before.nodes # <<>>

\* The steps of the end-to-end scenario, told by the workflow the call found
\* and its arguments.
ScenarioA == Node("id1", "A", TriggerType, <<0, 0>>, EmptyObject)
RemovesB ==
    /\ Succeeded("remove_node")
    /\ call.before = InitialWorkflow
    /\ call.args.nodeId = "B"
RenamesAToStart ==
    /\ Fetched("update_node")
    /\ call.before.nodes = <<ScenarioA>>
    /\ Edges(call.before.connections) = {}
    /\ call.args = [nodeId |-> "A", name |-> Some("Start"),
                    parameters |-> None, position |-> None]
ConnectsStartToB ==
    /\ Fetched("update_node_connections")
    /\ call.before.nodes = <<[ScenarioA EXCEPT !.name = "Start"]>>
    /\ Edges(call.before.connections) = {}
    /\ call.args.connections =
          Some(ConnectionsObject(<<"Start">>, [k \in {"Start"} |-> MainTo("B")]))
RenameSucceeds ==
    RenamesAToStart =>
        /\ call.isError => Failed("update_node", UpstreamMessages)
        /\ ~call.isError =>
            /\ engine.nodes = <<[ScenarioA EXCEPT !.name = "Start"]>>
            /\ Edges(engine.connections) = {}
ConnectFails ==
    ConnectsStartToB =>
        /\ Failed("update_node_connections", ValidationMessages)
        /\ Get(call.error).ref = "B"
        /\ NothingChanged

\* C14: end-to-end scenario.  From nodes A (a trigger) and B (HTTP) with the
\* one connection A -> B, remove_node(B) leaves nodes = [A] and connections =
\* {}, the empty map; update_node(A, {name: "Start"}) then succeeds; and
\* update_node_connections({Start: {main: [[{node: "B"}]]}}) then fails with a
\* validation error that quotes B and changes nothing.
C14_Scenario ==
    /\ RemovesB => (engine.nodes = <<ScenarioA>> /\ engine.connections = EmptyObject)
    /\ RenameSucceeds
    /\ ConnectFails

\* C14 as the code has it: remove_node(B) leaves nodes = [A] and connections
\* without an edge, but not empty: A keeps its key and its output slot, now
\* with no Target in it.  The rename moves that key to Start.
C14_ScenarioKeepsEmptySlot ==
    /\ RemovesB =>
        /\ engine.nodes = <<ScenarioA>>
        /\ engine.connections = [k \in {"A"} |-> [t \in {"main"} |-> <<Some(<<>>)>>]]
        /\ Edges(engine.connections) = {}
    /\ RenameSucceeds
    /\ (RenamesAToStart /\ ~call.isError /\ DOMAIN call.before.connections = {"A"}) =>
            engine.connections = [k \in {"Start"} |-> call.before.connections["A"]]
    /\ ConnectFails

\* The last step of the scenario has been refused, after the first two.
C14_Witness ==
    /\ ConnectsStartToB
    /\ call.before.connections = [k \in {"Start"} |-> [t \in {"main"} |-> <<Some(<<>>)>>]]
    /\ call.isError

MutatorTools == {"add_node", "update_node", "remove_node", "update_node_connections"}

NotFoundMessages == {"Node with ID or name not found in workflow"}
RequiredMessages == {"arguments are required"}

\* The checks the call's handler makes on the fetched workflow, all passed.
ChecksPassed ==
    CASE call.tool = "add_node" -> call.args.name \notin NamesOf(call.before)
      [] call.tool \in {"update_node", "remove_node"} -> ~MatchesNothing
      [] call.tool = "update_node_connections" ->
            LET object == Get(call.args.connections)
            IN \A k \in DOMAIN object.map :
                /\ k \in NamesOf(call.before)
                /\ \A j \in 1..Len(TargetsOfType(object.map[k], "main")) :
                      TargetsOfType(object.map[k], "main")[j].node
                          \in NamesOf(call.before)

\* C15: validate, then apply, then persist.  A mutator call sends at most
\* one PUT, and only after it has fetched the workflow and each check it
\* makes has passed; a call that fails for its arguments, in resolution or in
\* validation has sent no PUT; and after every failed call the engine's
\* workflow is what it was before the call.
C15_PutAfterValidation ==
    \A tool \in MutatorTools :
        Did(tool) =>
            /\ call.puts <= 1
            /\ call.puts = 1 => (call.gets = 1 /\ Fetched(tool) /\ ChecksPassed)
            /\ Failed(tool, ValidationMessages \cup NotFoundMessages \cup RequiredMessages)
                  => call.puts = 0
            /\ call.isError => engine = call.before
            /\ ~call.isError =>
                  (call.puts = 1 /\ engine = EnginePut(call.before, Get(call.sent)))

\* A call refused in validation, with the workflow fetched and no PUT sent.
C15_Witness ==
    /\ Failed("update_node_connections", ValidationMessages)
    /\ call.gets = 1
    /\ call.puts = 0
    /\ DOMAIN call.before.connections # {}

\* C16: Target.index is never negative.  The workflow starts with every
\* Target's index >= 0, and after every successful mutator call every Target
\* of the engine's connections has index >= 0; update_node_connections
\* installs no map with a negative index.
C16_TargetIndexNonNegative ==
    \A e \in Edges(engine.connections) : e[5] >= 0

Patched == Succeeded("update_node") /\ call.args.parameters # None

\* C17: the parameter update of update_node is a shallow merge.  With patch P
\* on a node with parameters Q, the node's parameters afterwards have the
\* keys of P and Q and no other, each key of P with its value in P and each
\* other key of Q with its value in Q; the node keeps its id, its type and
\* its place in the list, and the other nodes are as before.
C17_ParametersShallowMerge ==
    Patched =>
        /\ Len(engine.nodes) = Len(call.before.nodes)
        /\ \E i \in 1..Len(call.before.nodes) :
            LET P == Get(call.args.parameters)
                Q == call.before.nodes[i].parameters
                after == engine.nodes[i]
            IN /\ call.args.nodeId \in {call.before.nodes[i].id, call.before.nodes[i].name}
               /\ DOMAIN after.parameters = (DOMAIN P) \cup (DOMAIN Q)
               /\ \A k \in DOMAIN P : after.parameters[k] = P[k]
               /\ \A k \in (DOMAIN Q) \ (DOMAIN P) : after.parameters[k] = Q[k]
               /\ after.id = call.before.nodes[i].id
               /\ after.type = call.before.nodes[i].type
               /\ \A j \in (1..Len(engine.nodes)) \ {i} :
                     engine.nodes[j] = call.before.nodes[j]

\* A patch has overwritten one key of a node and left another of its keys.
C17_Witness ==
    /\ Patched
    /\ \E i \in 1..Len(call.before.nodes) :
        LET P == Get(call.args.parameters)
            Q == call.before.nodes[i].parameters
        IN /\ call.before.nodes[i].name = call.args.nodeId
           /\ (DOMAIN Q) \ (DOMAIN P) # {}
           /\ \E k \in (DOMAIN P) \cap (DOMAIN Q) : P[k] # Q[k]

\* Callers first and later have both finished a call that fetched the same
\* workflow; the engine took first's PUT, and later's call ended after that.
BothFetchedThenPersisted(first, later) ==
    /\ first # later
    /\ call[first].phase = "done" /\ call[later].phase = "done"
    /\ call[first].fetched = call[later].fetched
    /\ call[first].error = None
    /\ first \in call[later].after

\* C18: last writer wins.  When two callers fetch the same workflow and the
\* earlier one has persisted, the later call is not refused for that: it
\* fails only as it would alone, by its own handler's check or by the
\* engine's answer to its PUT; and when it persists, the engine ends with
\* exactly the workflow its PUT sent, which is the later caller's edit of the
\* workflow it fetched, so the earlier caller's edit is not in it.
C18_LastWriterWins ==
    \A first, later \in Callers :
        BothFetchedThenPersisted(first, later) =>
            LET mine == call[later]
                outcome == Handler(mine.tool, mine.fetched, mine.args, mine.newNodeId)
            IN /\ outcome.throws # None => mine.error = outcome.throws
               /\ outcome.throws = None =>
                    mine.error \in {None, Some(Error("Failed to update workflow", ""))}
               /\ mine.error = None =>
                    /\ mine.sent = outcome.body
                    /\ engine = EnginePut(mine.fetched, Get(mine.sent))

\* The earlier caller added a node and the later one removed another: the
\* added node is gone.
C18_Witness ==
    \E first, later \in Callers :
        /\ BothFetchedThenPersisted(first, later)
        /\ call[first].tool = "add_node"
        /\ call[later].tool = "remove_node"
        /\ call[later].error = None
        /\ call[first].args.name \notin NamesOf(engine)

\* The nodes the report's warnings of one type name, in order.
Warned(type) ==
    LET hit == SelectSeq(call.report.warnings, LAMBDA w : w.type = type)
    IN [i \in 1..Len(hit) |-> hit[i].node]

\* C19: orphan detection.  validate_workflow gives one orphaned-node warning
\* for each node whose name is neither a key of connections nor the node of
\* any Target, when the workflow has more than one node, and none when it has
\* one node: two unconnected nodes give exactly two warnings.
C19_OrphanWarnings ==
    Succeeded("validate_workflow") =>
        LET nodes == call.before.nodes
            orphans == SelectSeq(nodes,
                         LAMBDA node : node.name \notin NamesIn(call.before.connections))
        IN Warned("orphaned_node") =
              (IF Len(nodes) > 1 THEN [i \in 1..Len(orphans) |-> orphans[i].name]
               ELSE <<>>)

\* C20: the validation score.  validate_workflow returns score =
\* max(0, 100 - 20 * issues - 5 * warnings), so the score is between 0 and
\* 100, and isValid is true exactly when there is no issue.
C20_ValidationScore ==
    Succeeded("validate_workflow") =>
        LET report == call.report
            raw == 100 - 20 * Len(report.issues) - 5 * Len(report.warnings)
        IN /\ report.validationScore = (IF raw < 0 THEN 0 ELSE raw)
           /\ report.validationScore \in 0..100
           /\ report.isValid <=> (Len(report.issues) = 0)

\* So many warnings that 100 - 5 * warnings is negative: the score is 0.
C20_Witness ==
    /\ Succeeded("validate_workflow")
    /\ 5 * Len(call.report.warnings) > 100
    /\ call.report.validationScore = 0

\* The type contains "trigger", whatever the case of its letters.
ContainsTriggerAnyCase(type) ==
    type \in {"n8n-nodes-base.manualTrigger", "n8n-nodes-base.cronTrigger",
              "n8n-nodes-base.webhookTrigger", "n8n-nodes-base.httpTrigger",
              "custom.trigger", "x.scheduleTrigger"}

Suggested(type) ==
    \E i \in 1..Len(call.report.suggestions) : call.report.suggestions[i] = type

\* C21: the trigger suggestion.  validate_workflow suggests adding a trigger
\* exactly when the workflow has a node and no node's type contains
\* "trigger" in any spelling of case; a type such as x.scheduleTrigger
\* suppresses the suggestion.
C21_TriggerSuggestion ==
    Succeeded("validate_workflow") =>
        (Suggested("add_trigger") <=>
            /\ Len(call.before.nodes) > 0
            /\ \A i \in 1..Len(call.before.nodes) :
                  ~ContainsTriggerAnyCase(call.before.nodes[i].type))

\* The node has no parameters: the mapping is absent or has no key.
NoParameters(node) == "parameters" \notin DOMAIN node \/ node.parameters = EmptyObject

\* C22: the missing-parameters warning.  validate_workflow gives the warning
\* for every node whose parameters mapping is absent or empty, and for no
\* other node.
C22_MissingParametersWarning ==
    Succeeded("validate_workflow") =>
        LET bare == SelectSeq(call.before.nodes, NoParameters)
        IN Warned("missing_parameters") = [i \in 1..Len(bare) |-> bare[i].name]

\* The records of the call's window, by the window's definition: started no
\* earlier than the given number of days (30 when none is given) before now.
WindowDays == IF call.args.days = None THEN 30 ELSE Get(call.args.days)
InWindow(exec) == exec.startedAt >= call.before.now - WindowDays * 24 * 60 * 60
Window == SelectSeq(call.before.executions, InWindow)

\* Both GETs of the call were answered.
StatsFetched ==
    /\ Did("get_workflow_stats")
    /\ call.gets = 2
    /\ call.isError => Get(call.error).message # "Failed to fetch executions"

\* C23: no division by zero.  get_workflow_stats over a window without
\* records does not fail; it returns totalExecutions = 0, the success rate 0
\* (the same constant on every such call) and average and maximum execution
\* time 0.
C23_StatsOfEmptyWindow ==
    (StatsFetched /\ Window = <<>>) =>
        /\ ~call.isError
        /\ call.stats.totalExecutions = 0
        /\ call.stats.successRate = 0
        /\ call.stats.avgExecutionTimeMs = 0
        /\ call.stats.maxExecutionTimeMs = 0

\* The engine has records, all of them older than the window asked for.
C23_Witness ==
    /\ Succeeded("get_workflow_stats")
    /\ call.before.executions # <<>>
    /\ Window = <<>>

\* Successful as the claim has it: status success, or finished = true when
\* the status is absent.
ClaimedSuccessful(exec) ==
    exec.status = Some("success") \/ (exec.status = None /\ exec.finished = Some(TRUE))

\* C24: classification.  Each record of the window is classified by its
\* status: success is successful, error is failed, running and waiting are
\* running.  finished = true means success only when the status is absent: a
\* record with a status is never successful for being finished, and a record
\* without status and with finished = true is successful with or without
\* stoppedAt.
C24_Classification ==
    Succeeded("get_workflow_stats") =>
        /\ call.stats.successful = Len(SelectSeq(Window, ClaimedSuccessful))
        /\ call.stats.failed >=
              Len(SelectSeq(Window, LAMBDA exec : exec.status = Some("error")))
        /\ call.stats.failed <=
              Len(SelectSeq(Window, LAMBDA exec : exec.status \in {Some("error"), Some("failed")}))
        /\ call.stats.running =
              Len(SelectSeq(Window, LAMBDA exec : exec.status \in {Some("running"), Some("waiting")}))

\* C29: the classes are disjoint.  Each record of the window is counted in at
\* most one of successful, failed and running, so successful + failed +
\* running <= totalExecutions, and the success rate lies between 0 and 100
\* per cent.
C29_DisjointClasses ==
    Succeeded("get_workflow_stats") =>
        /\ call.stats.successful + call.stats.failed + call.stats.running
              <= call.stats.totalExecutions
        /\ call.stats.successRate \in 0..10000

\* The tools that send a workflow body to the engine.
SendingTools ==
    {"add_node", "update_node", "remove_node", "update_node_connections",
     "update_workflow", "create_workflow"}

\* C25: engine-owned fields are never sent.  The body of every PUT and POST
\* of the six tools has only the fields name, nodes, connections and
\* settings: never id, active, createdAt, updatedAt or tags, nor any other
\* field of the fetched document.
C25_OnlyFourFieldsSent ==
    (call.phase = "returned" /\ call.tool \in SendingTools /\ call.sent # None) =>
        DOMAIN Get(call.sent) \subseteq {"name", "nodes", "connections", "settings"}

\* The node remove_node took out of the workflow it found, and its name.
RemovedIndex == findIndex(call.before.nodes, call.args.nodeId)
RemovedName == call.before.nodes[RemovedIndex].name

\* The Targets of a slot that do not name the given node, in their order.
Unrelated(slot, name) ==
    IF slot = None THEN <<>> ELSE SelectSeq(Get(slot), LAMBDA c : c.node # name)

\* C30: remove_node touches nothing unrelated to the removed node X.  All
\* other nodes are unchanged and keep their order; every edge whose source
\* and target are not X is still at its slot, in the same relative order; no
\* edge appears; every remaining source key keeps its connection types and
\* the number of output slots of each.
C30_RemoveNodeFrame ==
    Succeeded("remove_node") =>
        LET old == call.before.connections
            new == engine.connections
        IN /\ engine.nodes = RemoveAt(call.before.nodes, RemovedIndex)
           /\ DOMAIN new = (DOMAIN old) \ {RemovedName}
           /\ \A s \in DOMAIN new :
                /\ DOMAIN new[s] = DOMAIN old[s]
                /\ \A t \in DOMAIN new[s] :
                    /\ Len(new[s][t]) = Len(old[s][t])
                    /\ \A i \in 1..Len(new[s][t]) :
                        /\ (new[s][t][i] = None) = (old[s][t][i] = None)
                        /\ Unrelated(new[s][t][i], RemovedName)
                              = Unrelated(old[s][t][i], RemovedName)
           /\ Edges(new) \subseteq Edges(old)
           /\ [f \in (DOMAIN engine) \ {"nodes", "connections"} |-> engine[f]]
                = [f \in (DOMAIN engine) \ {"nodes", "connections"} |-> call.before[f]]

\* A node is removed from a workflow that has an edge into it and, from the
\* same source, an edge that does not touch it.
C30_Witness ==
    /\ Succeeded("remove_node")
    /\ \E e \in Edges(call.before.connections), g \in Edges(call.before.connections) :
        /\ e[1] # RemovedName /\ e[4] # RemovedName
        /\ g[1] = e[1] /\ g[4] = RemovedName
    /\ Len(engine.nodes) > 0

\* C26: limited mode.  While the API key is 'not-configured', every tool call
\* other than health_check is answered with an isError result whose error is
\* 'Configuration required' and sends no request to the engine; health_check
\* is answered with status 'not-configured' and isError false, without a
\* connectivity test; every call is answered with a result.
C26_LimitedMode ==
    (server.n8nApiKey = "not-configured" /\ call.phase # "idle") =>
        /\ call.phase = "returned" =>
            /\ call.gets = 0 /\ call.puts = 0 /\ call.sent = None
            /\ engine = call.before
            /\ call.tool # "health_check" =>
                /\ call.isError
                /\ Get(call.error).message = "Configuration required"
            /\ call.tool = "health_check" =>
                /\ ~call.isError
                /\ call.status = "not-configured"
        /\ call.phase = "received" => ENABLED (ConfigurationRequired \/ HealthCheck)

\* Without an API key, a node tool and health_check have been answered.
C26_Witness ==
    /\ server.n8nApiKey = "not-configured"
    /\ call.phase = "returned"
    /\ call.tool \in {"add_node", "update_node", "remove_node",
                       "update_node_connections"}
    /\ call.isError

\* k failed attempts, each followed by its wait.
RECURSIVE FailedAndWaited(_)
FailedAndWaited(k) ==
    IF k = 0 THEN <<>> ELSE <<"failed", "wait">> \o FailedAndWaited(k - 1)

\* What main() does from start to the connected transport, as the claim has
\* it: without a key no attempt; with one, up to three attempts, a wait after
\* each failed attempt but the third, nothing after the first success.
StartupTrails(n8nApiKey) ==
    IF n8nApiKey = "not-configured"
    THEN {<<"configure", "connect">>}
    ELSE {FailedAndWaited(k) \o <<"passed", "configure", "connect">> : k \in 0..2}
         \cup {FailedAndWaited(2) \o <<"failed", "configure", "connect">>}

IsPrefix(s, t) == Len(s) <= Len(t) /\ s = SubSeq(t, 1, Len(s))

ConnectAttempted == \E i \in 1..Len(server.trail) : server.trail[i] = "connect"

\* C27: the startup connectivity retry.  With an API key main() makes at
\* most 3 connectivity attempts, stops at the first success, waits between a
\* failed attempt and the next one, and after the third failure goes on to
\* configure the server and connect the transport; a connectivity failure
\* never makes the process exit.  Without a key it makes no attempt and
\* starts the server likewise.  (A signal may end the process before.)
C27_StartupRetry ==
    /\ [](/\ server.attempt <= 3
          /\ \E t \in StartupTrails(server.n8nApiKey) : IsPrefix(server.trail, t)
          /\ server.exitCode = Some(1) => ConnectAttempted
          /\ server.n8nApiKey = "not-configured" => server.attempt = 0)
    /\ <>(ConnectAttempted \/ server.isShuttingDown)

\* Three attempts failed and the server started all the same.
C27_Witness ==
    /\ server.trail = FailedAndWaited(2) \o <<"failed", "configure", "connect">>
    /\ server.main = "started"
    /\ ~server.connectivityTestPassed

\* What C28 says of every step and state, whatever the exit code: the first
\* event starts the shutdown and isShuttingDown stays true, close() is called
\* at most once and only on a server instance, later events do nothing.
ShutdownOnce ==
    /\ [][server.isShuttingDown =>
            /\ server'.isShuttingDown
            /\ server'.signal = server.signal
            /\ server'.closeCalls = server.closeCalls
            /\ server'.events # server.events =>
                  server' = [server EXCEPT !.events = @ + 1, !.ignored = @ + 1]]_vars
    /\ [](/\ server.closeCalls <= 1
          /\ server.closeCalls = 1 => server.serverInstance
          /\ server.isShuttingDown = (server.signal # None)
          /\ (server.events > 0) => server.isShuttingDown)

\* C28 as stated: the shutdown runs once, and once begun the process
\* eventually exits with code 0, also when close() never completes or throws.
C28_GracefulShutdown ==
    /\ ShutdownOnce
    /\ server.isShuttingDown ~> (server.exitCode = Some(0))

\* C28, amended: the shutdown runs once, and once begun the process
\* eventually exits: with code 0, or with code 1 when main() fails to connect
\* the transport before close() has settled or the timeout has fired.
C28_GracefulShutdownOrStartupFailure ==
    /\ ShutdownOnce
    /\ server.isShuttingDown ~>
          \/ server.exitCode = Some(0)
          \/ server.exitCode = Some(1) /\ server.main = "failed"
    /\ []((server.isShuttingDown /\ server.main = "started" /\ server.exitCode # None)
            => server.exitCode = Some(0))

\* close() was called once and never settled; two later events were ignored
\* and the timeout ended the process with code 0.
C28_Witness ==
    /\ server.exitCode = Some(0)
    /\ server.closeCalls = 1 /\ server.close = "pending"
    /\ server.shutdownPromise = "timeout"
    /\ server.ignored = 2

====
